---------------------------- MODULE Spec2Model ----------------------------
(***************************************************************************)
(* A model of lib/money.js: the immutable Money value (an exact decimal    *)
(* amount and an ISO-4217 currency code), its arithmetic, rounding,        *)
(* allocation and comparison operators, and the asynchronous conversion    *)
(* to().                                                                   *)
(*                                                                         *)
(* Decimals (big.js values) are records [c, dp] standing for c / 10^dp,    *)
(* kept normalised (no trailing zero in the fraction), so that record      *)
(* equality is numeric equality.  JavaScript strings are sequences of      *)
(* one-character strings.  A call either returns or throws, and is         *)
(* modelled by an outcome record [kind, val, err].                         *)
(***************************************************************************)
EXTENDS Integers, Sequences, FiniteSets

VARIABLES
    input,   \* the arguments of the call under study: [self, that, ratios, precision]
    result,  \* the last synchronous call and its outcome: [op, out]
    heap,    \* every Money constructed so far, in construction order
    calls    \* the to() calls and the state of each one's promise chain

vars == <<input, result, heap, calls>>

---------------------------------------------------------------------------
(* Bounds of the model. *)

MaxCoeff == 3        \* amounts are c / 10^dp with |c| <= MaxCoeff
MaxDp == 2           \*   and 0 <= dp <= MaxDp
MaxPrecision == 2    \* explicit precisions are 0..MaxPrecision
MaxRatio == 3        \* a ratio is in 0..MaxRatio
MaxLen == 3          \* a ratio array holds at most MaxLen ratios
MaxHeap == 2         \* synchronous calls construct at most MaxHeap Money objects
MaxCalls == 2        \* at most MaxCalls to() calls are in flight

---------------------------------------------------------------------------
(* JavaScript values. *)

Upper == {"A","B","C","D","E","F","G","H","I","J","K","L","M",
          "N","O","P","Q","R","S","T","U","V","W","X","Y","Z"}

Str(s) == [t |-> "string", s |-> s]
Undefined == [t |-> "undefined", s |-> << >>]

USD == Str(<<"U","S","D">>)
EUR == Str(<<"E","U","R">>)
JPY == Str(<<"J","P","Y">>)

\* String(v), as RegExp.prototype.test and template literals apply it.
JSToString(v) ==
    IF v.t = "string" THEN v.s ELSE <<"u","n","d","e","f","i","n","e","d">>

\* iso4217 = /^[A-Z]{3}$/ ; iso4217.test(v)
iso4217Test(v) ==
    LET s == JSToString(v)
    IN  Len(s) = 3 /\ \A i \in 1..3 : s[i] \in Upper

\* A JavaScript number n/d; d = 0 stands for NaN (n = 0) and for an
\* infinity (n # 0), the results of a division by zero.
Num(n, d) == [t |-> "number", n |-> n, d |-> d]
NumUndefined == [t |-> "undefined", n |-> 0, d |-> 1]
\* A string of n characters given where a number is expected.
NumStr(n) == [t |-> "string", n |-> n, d |-> 1]

\* ToBoolean(v)
Truthy(v) ==
    CASE v.t = "undefined" -> FALSE
      [] v.t = "number"    -> v.d # 0 /\ v.n # 0
      [] v.t = "string"    -> v.n > 0

\* Number.isInteger(v)
IsInteger(v) == v.t = "number" /\ v.d # 0 /\ v.n % v.d = 0

\* a / b on numbers that hold integers
JSDiv(a, b) == Num(a, b)

---------------------------------------------------------------------------
(* Outcomes and errors. *)

NoErr == [name |-> "", kind |-> "", a |-> << >>, b |-> << >>]
Err(name, kind, a, b) == [name |-> name, kind |-> kind, a |-> a, b |-> b]

Return(v) == [kind |-> "return", val |-> v, err |-> NoErr]
Throw(e)  == [kind |-> "throw", val |-> << >>, err |-> e]

\* new Error(`'${currency}' is not a valid ISO-4217 currency code`)
InvalidCurrency(currency) ==
    Err("Error", "InvalidCurrency", JSToString(currency), << >>)
\* new Error('Currencies must be the same')
CurrencyMismatch == Err("Error", "CurrencyMismatch", << >>, << >>)
\* new TypeError(...)
TypeErr == Err("TypeError", "TypeError", << >>, << >>)
\* new Error(`Undefined exchange rate for ${self.currency} to ${currency}`)
NoRate(from, to) ==
    Err("Error", "NoRate", JSToString(from), JSToString(to))
\* the errors big.js throws: for a NaN or infinite operand, and for a
\* number of decimal places that is not an integer in 0..MAX_DP
BigInvalidNumber == Err("Error", "BigInvalidNumber", << >>, << >>)
BigInvalidDp == Err("Error", "BigInvalidDp", << >>, << >>)

---------------------------------------------------------------------------
(* big.js decimals. *)

RECURSIVE Pow10(_)
Pow10(n) == IF n = 0 THEN 1 ELSE 10 * Pow10(n - 1)

Abs(x) == IF x < 0 THEN -x ELSE x
Sgn(x) == IF x < 0 THEN -1 ELSE IF x > 0 THEN 1 ELSE 0
Max(a, b) == IF a >= b THEN a ELSE b

RECURSIVE Big(_, _)
Big(c, dp) ==
    IF c = 0 THEN [c |-> 0, dp |-> 0]
    ELSE IF dp > 0 /\ c % 10 = 0 THEN Big(c \div 10, dp - 1)
    ELSE [c |-> c, dp |-> dp]

zero == Big(0, 0)

BigPlus(x, y) ==
    LET d == Max(x.dp, y.dp)
    IN  Big(x.c * Pow10(d - x.dp) + y.c * Pow10(d - y.dp), d)

BigMinus(x, y) ==
    LET d == Max(x.dp, y.dp)
    IN  Big(x.c * Pow10(d - x.dp) - y.c * Pow10(d - y.dp), d)

BigTimes(x, y) == Big(x.c * y.c, x.dp + y.dp)

BigCmp(x, y) ==
    LET d == Max(x.dp, y.dp)
    IN  Sgn(x.c * Pow10(d - x.dp) - y.c * Pow10(d - y.dp))

\* Whether the magnitude q + r/s (0 <= r < s) rounds away from zero under
\* big.js rounding mode rm: 0 down, 1 half up, 2 half even, 3 up.
RoundsUp(q, r, s, rm) ==
    CASE rm = 0 -> FALSE
      [] rm = 1 -> 2 * r >= s
      [] rm = 2 -> 2 * r > s \/ (2 * r = s /\ q % 2 = 1)
      [] rm = 3 -> r > 0

\* x.round(dp, rm) for a valid dp
BigRound(x, dp, rm) ==
    IF x.dp <= dp THEN x
    ELSE LET s == Pow10(x.dp - dp)
             a == Abs(x.c)
             q == a \div s
             r == a % s
         IN  Big(Sgn(x.c) * (q + (IF RoundsUp(q, r, s, rm) THEN 1 ELSE 0)), dp)

\* The check big.js makes of dp: an integer, not negative.
ValidDp(v) == IsInteger(v) /\ v.n \div v.d >= 0

\* new Big(number) for a finite number with a terminating decimal expansion
NumToBig(v) ==
    LET k == CHOOSE k \in 0..4 : (v.n * Pow10(k)) % v.d = 0
    IN  Big((v.n * Pow10(k)) \div v.d, k)

---------------------------------------------------------------------------
(* Money: construction and the synchronous operators. *)

roundingMode == 2    \* ROUND_HALF_EVEN, banker's rounding

\* The validation and freeze of the constructor, for a decimal amount.
Money(amount, currency) ==
    IF ~iso4217Test(currency) THEN Throw(InvalidCurrency(currency))
    ELSE Return([amount |-> amount, currency |-> currency])

\* new Money(number, currency): new Big(amount) comes first and throws for
\* a number that is not finite.
MoneyNew(amount, currency) ==
    IF amount.d = 0 THEN Throw(BigInvalidNumber)
    ELSE Money(NumToBig(amount), currency)

\* Money.prototype.precision: the currency's minor-unit digits, as the
\* localisation collaborator reports them.
precisionOf(currency) == IF currency = JPY THEN 0 ELSE 2

plus(self, other) ==
    IF self.currency # other.currency THEN Throw(CurrencyMismatch)
    ELSE Money(BigPlus(self.amount, other.amount), self.currency)

minus(self, other) ==
    IF self.currency # other.currency THEN Throw(CurrencyMismatch)
    ELSE Money(BigMinus(self.amount, other.amount), self.currency)

times(self, n) ==
    IF n.t # "number" THEN Throw(TypeErr)
    ELSE IF n.d = 0 THEN Throw(BigInvalidNumber)
    ELSE Money(BigTimes(self.amount, NumToBig(n)), self.currency)

round(self, precision) ==
    IF Truthy(precision) /\ ~IsInteger(precision) THEN Throw(TypeErr)
    ELSE LET p == IF precision = NumUndefined
                  THEN Num(precisionOf(self.currency), 1)
                  ELSE precision
         IN  IF ~ValidDp(p) THEN Throw(BigInvalidDp)
             ELSE Money(BigRound(self.amount, p.n \div p.d, roundingMode),
                        self.currency)

\* compare without its currency guard.
compareUnchecked(self, other) == Return(BigCmp(self.amount, other.amount))

compare(self, other) ==
    IF self.currency # other.currency THEN Throw(CurrencyMismatch)
    ELSE Return(BigCmp(self.amount, other.amount))

\* f(this.compare(that)): the comparison is made on compare's value, and a
\* throw of compare propagates.
OnCompare(c, lo, hi) ==
    IF c.kind = "throw" THEN c ELSE Return(lo <= c.val /\ c.val <= hi)

eq(self, other) ==
    IF self.currency = other.currency
    THEN OnCompare(compare(self, other), 0, 0)
    ELSE Return(FALSE)

\* ne without the short circuit on the currencies.
neUnguarded(self, other) ==
    LET c == compare(self, other)
    IN  IF c.kind = "throw" THEN c ELSE Return(c.val # 0)

ne(self, other) ==
    IF self.currency # other.currency
    THEN Return(TRUE)
    ELSE LET c == compare(self, other)
         IN  IF c.kind = "throw" THEN c ELSE Return(c.val # 0)

lt(self, other)  == OnCompare(compare(self, other), -1, -1)
lte(self, other) == OnCompare(compare(self, other), -1, 0)
gt(self, other)  == OnCompare(compare(self, other), 1, 1)
gte(self, other) == OnCompare(compare(self, other), 0, 1)

isNotZero(self) == BigCmp(self.amount, zero) # 0

---------------------------------------------------------------------------
(* Allocation. *)

RECURSIVE GCD(_, _)
GCD(a, b) == IF b = 0 THEN a ELSE GCD(b, a % b)

\* The reduced fractions n/d, 0 < n < d <= 19, for which the decimal that
\* big.js reads from the double n / d (the shortest digits that read back
\* as that double) lies below, respectively above, the exact quotient.
\* For every other fraction in that range the decimal is exact.
QuotBelow ==
    { <<1,3>>, <<2,3>>, <<1,6>>, <<1,7>>, <<2,7>>, <<3,7>>, <<4,7>>, <<6,7>>,
      <<1,9>>, <<2,9>>, <<4,9>>, <<8,9>>, <<3,11>>, <<5,11>>, <<6,11>>,
      <<1,12>>, <<11,12>>, <<7,13>>, <<9,13>>, <<11,13>>, <<1,14>>, <<3,14>>,
      <<11,14>>, <<2,15>>, <<4,15>>, <<8,15>>, <<11,15>>, <<14,15>>,
      <<1,17>>, <<2,17>>, <<4,17>>, <<7,17>>, <<8,17>>, <<13,17>>, <<14,17>>,
      <<1,18>>, <<13,18>>, <<17,18>>, <<1,19>>, <<2,19>>, <<3,19>>, <<4,19>>,
      <<5,19>>, <<6,19>>, <<7,19>>, <<8,19>>, <<9,19>>, <<10,19>>, <<12,19>>,
      <<15,19>>, <<16,19>>, <<18,19>> }

QuotAbove ==
    { <<5,6>>, <<5,7>>, <<5,9>>, <<7,9>>, <<1,11>>, <<2,11>>, <<4,11>>,
      <<7,11>>, <<8,11>>, <<9,11>>, <<10,11>>, <<5,12>>, <<7,12>>, <<1,13>>,
      <<2,13>>, <<3,13>>, <<4,13>>, <<5,13>>, <<6,13>>, <<8,13>>, <<10,13>>,
      <<12,13>>, <<5,14>>, <<9,14>>, <<13,14>>, <<1,15>>, <<7,15>>, <<13,15>>,
      <<3,17>>, <<5,17>>, <<6,17>>, <<9,17>>, <<10,17>>, <<11,17>>, <<12,17>>,
      <<15,17>>, <<16,17>>, <<5,18>>, <<7,18>>, <<11,18>>, <<11,19>>,
      <<13,19>>, <<14,19>>, <<17,19>> }

\* The sign of (the decimal read from the double n / d) - n/d.
QuotErr(n, d) ==
    LET g == GCD(n, d)
        f == <<n \div g, d \div g>>
    IN  IF f \in QuotBelow THEN -1 ELSE IF f \in QuotAbove THEN 1 ELSE 0

\* amount.times(q).round(precision) for the quotient q = ratio / total of
\* two non-negative numbers and an amount already rounded to precision.
\* The product has the sixteen or seventeen digits of q and is kept as the
\* exact fraction amount * n / d together with the side on which the
\* decimal read from q lies; the error of q is far below the distance from
\* a non-tie to the nearest tie, so it decides the rounding of ties only.
timesRound(amount, q, precision) ==
    IF q.t # "number" THEN Throw(TypeErr)
    ELSE IF q.d = 0 THEN Throw(BigInvalidNumber)
    ELSE LET p == IF precision = NumUndefined
                  THEN precisionOf(amount.currency)
                  ELSE precision.n \div precision.d
             a == Abs(amount.amount.c) * Pow10(p - amount.amount.dp) * q.n
             f == a \div q.d
             r == a % q.d
             e == QuotErr(q.n, q.d)
             up == IF 2 * r = q.d /\ e # 0 THEN e > 0
                   ELSE RoundsUp(f, r, q.d, roundingMode)
         IN  Money(Big(Sgn(amount.amount.c) * (f + (IF up THEN 1 ELSE 0)), p),
                   amount.currency)

RECURSIVE Sum(_)
Sum(s) == IF s = << >> THEN 0 ELSE Head(s) + Sum(Tail(s))

\* remainder = remainder.minus(share), for each share in order
RECURSIVE Remainder(_, _)
Remainder(rem, shares) ==
    IF shares = << >> THEN rem
    ELSE Remainder(minus(rem, Head(shares)).val, Tail(shares))

\* The shares as first rounded, the remainder dropped.
absorbNone(shares, remainder, precision) == shares

\* if (remainder.isNotZero()) shares[0] = shares[0].plus(remainder).round(precision)
absorb(shares, remainder, precision) ==
    IF isNotZero(remainder)
    THEN [shares EXCEPT ![1] = round(plus(shares[1], remainder).val, precision).val]
    ELSE shares

allocate(self, ratios, precision) ==
    IF Len(ratios) < 1 THEN Throw(TypeErr)
    ELSE LET total == Sum(ratios)
             rounded == round(self, precision)
         IN  IF rounded.kind = "throw" THEN rounded
             ELSE LET amount == rounded.val
                      share(i) == timesRound(amount, JSDiv(ratios[i], total), precision)
                      bad == {i \in 1..Len(ratios) : share(i).kind = "throw"}
                  IN  IF bad # {}
                      THEN share(CHOOSE i \in bad : \A j \in bad : i <= j)
                      ELSE LET shares == [i \in 1..Len(ratios) |-> share(i).val]
                           IN  Return(absorb(shares, Remainder(amount, shares), precision))

---------------------------------------------------------------------------
(* The inputs the calls are made on. *)

Amounts == {Big(c, dp) : c \in -MaxCoeff..MaxCoeff, dp \in 0..MaxDp}
Currencies == {USD, JPY}
Moneys == {[amount |-> a, currency |-> c] : a \in Amounts, c \in Currencies}

\* precision omitted, or a non-negative integer
Precisions == {NumUndefined} \cup {Num(p, 1) : p \in 0..MaxPrecision}
\* and what else a caller may pass: -1, 1.5, NaN, "2", ""
PrecisionValues ==
    Precisions \cup {Num(-1, 1), Num(3, 2), Num(0, 0), NumStr(1), NumStr(0)}

RatioArrays == UNION {[1..n -> 0..MaxRatio] : n \in 0..MaxLen}

NoInput ==
    [self |-> [amount |-> zero, currency |-> USD],
     that |-> [amount |-> zero, currency |-> USD],
     ratios |-> << >>, precision |-> NumUndefined]

NoResult == [op |-> "none", out |-> Return(<< >>)]

CallIds == 1..MaxCalls

NoOutcome == [kind |-> "none", ref |-> 0, err |-> NoErr]
NoResponse == [kind |-> "none", rate |-> NumUndefined, err |-> NoErr]
IdleCall ==
    [pc |-> "idle", self |-> 0, target |-> Undefined, requests |-> 0,
     response |-> NoResponse, outcome |-> NoOutcome, delivered |-> 0]

\* One synchronous call on the inputs drawn by Init.
Apply(name, out) ==
    /\ result.op = "none"
    /\ result' = [op |-> name, out |-> out]
    /\ UNCHANGED <<input, heap, calls>>

---------------------------------------------------------------------------
(* The binary operators, on every pair of Money values. *)

InitBinary ==
    /\ input \in {[NoInput EXCEPT !.self = x, !.that = y] : x \in Moneys, y \in Moneys}
    /\ result = NoResult
    /\ heap = << >>
    /\ calls = [c \in CallIds |-> IdleCall]

Plus    == Apply("plus", plus(input.self, input.that))
Minus   == Apply("minus", minus(input.self, input.that))
Compare == Apply("compare", compare(input.self, input.that))
Eq      == Apply("eq", eq(input.self, input.that))
Ne      == Apply("ne", ne(input.self, input.that))
Lt      == Apply("lt", lt(input.self, input.that))
Lte     == Apply("lte", lte(input.self, input.that))
Gt      == Apply("gt", gt(input.self, input.that))
Gte     == Apply("gte", gte(input.self, input.that))

NextBinary ==
    Plus \/ Minus \/ Compare \/ Eq \/ Ne \/ Lt \/ Lte \/ Gt \/ Gte

SpecBinary == InitBinary /\ [][NextBinary]_vars

---------------------------------------------------------------------------
(* round, on every Money and every precision value. *)

InitRound ==
    /\ input \in {[NoInput EXCEPT !.self = x, !.precision = p] :
                    x \in Moneys, p \in PrecisionValues}
    /\ result = NoResult
    /\ heap = << >>
    /\ calls = [c \in CallIds |-> IdleCall]

Round == Apply("round", round(input.self, input.precision))

NextRound == Round

SpecRound == InitRound /\ [][NextRound]_vars

---------------------------------------------------------------------------
(* allocate, on every Money, ratio array and precision. *)

InitAlloc ==
    /\ input \in {[NoInput EXCEPT !.self = x, !.ratios = r, !.precision = p] :
                    x \in Moneys, r \in RatioArrays, p \in Precisions}
    /\ result = NoResult
    /\ heap = << >>
    /\ calls = [c \in CallIds |-> IdleCall]

Allocate == Apply("allocate", allocate(input.self, input.ratios, input.precision))

NextAlloc == Allocate

SpecAlloc == InitAlloc /\ [][NextAlloc]_vars

---------------------------------------------------------------------------
(* Properties of the synchronous operators. *)

\* A decimal as an integer count of 10^-Scale units.
Scale == Max(MaxDp, Max(MaxPrecision, 2))
Units(b) == b.c * Pow10(Scale - b.dp)

\* The number of decimal places a precision argument stands for.
Places(self, precision) ==
    IF precision = NumUndefined THEN precisionOf(self.currency)
    ELSE precision.n \div precision.d

RECURSIVE SumUnits(_)
SumUnits(shares) ==
    IF shares = << >> THEN 0
    ELSE Units(Head(shares).amount) + SumUnits(Tail(shares))

\* C1: for ratios that are not negative and sum to a positive number,
\* allocate returns one share per ratio, in the currency of the receiver;
\* the shares sum exactly to the receiver rounded to the precision, and
\* every share but the first is its ratio's part of that amount, rounded
\* to the nearest unit of the precision.
C1_AllocateSumsToRounded ==
    (result.op = "allocate" /\ Len(input.ratios) >= 1 /\ Sum(input.ratios) > 0)
    => /\ result.out.kind = "return"
       /\ Len(result.out.val) = Len(input.ratios)
       /\ \A i \in 1..Len(input.ratios) :
              result.out.val[i].currency = input.self.currency
       /\ round(input.self, input.precision).kind = "return"
       /\ SumUnits(result.out.val)
              = Units(round(input.self, input.precision).val.amount)
       /\ \A i \in 2..Len(input.ratios) :
              LET u == Pow10(Scale - Places(input.self, input.precision))
                  a == Units(round(input.self, input.precision).val.amount)
                  x == Units(result.out.val[i].amount)
              IN  /\ x % u = 0
                  /\ 2 * Abs(x * Sum(input.ratios) - a * input.ratios[i])
                         <= u * Sum(input.ratios)

\* An allocation whose shares, as first rounded, did not sum to the amount:
\* the first share took the remainder.
C1_Witness ==
    /\ result.op = "allocate"
    /\ Len(input.ratios) >= 2
    /\ Sum(input.ratios) > 0
    /\ result.out.kind = "return"
    /\ result.out.val[1] #
           timesRound(round(input.self, input.precision).val,
                      JSDiv(input.ratios[1], Sum(input.ratios)),
                      input.precision).val

\* C2: allocate(ratios) on a non-empty ratio array whose sum is zero fails
\* with the InvalidAllocation error kind.
C2_ZeroTotalIsInvalidAllocation ==
    (result.op = "allocate" /\ Len(input.ratios) >= 1 /\ Sum(input.ratios) = 0
        /\ input.precision = NumUndefined)
    => /\ result.out.kind = "throw"
       /\ result.out.err.kind = "InvalidAllocation"

BinaryGuarded == {"plus", "minus", "compare", "lt", "lte", "gt", "gte"}

\* C7: across currencies plus, minus, compare, lt, lte, gt and gte throw
\* the currency mismatch error and produce no value; within one currency
\* plus and minus return a Money of that currency whose amount is the
\* exact sum, respectively difference.
C7_MismatchThrowsElseExact ==
    (result.op \in BinaryGuarded)
    => IF input.self.currency # input.that.currency
       THEN /\ result.out.kind = "throw"
            /\ result.out.err.kind = "CurrencyMismatch"
            /\ result.out.val = << >>
       ELSE /\ result.out.kind = "return"
            /\ result.op = "plus" =>
                 /\ result.out.val.currency = input.self.currency
                 /\ Units(result.out.val.amount)
                      = Units(input.self.amount) + Units(input.that.amount)
            /\ result.op = "minus" =>
                 /\ result.out.val.currency = input.self.currency
                 /\ Units(result.out.val.amount)
                      = Units(input.self.amount) - Units(input.that.amount)

\* An order predicate called across currencies.
C7_Witness ==
    /\ result.op = "gte"
    /\ input.self.currency # input.that.currency
    /\ result.out.kind = "throw"

\* C8: eq and ne never throw; ne is the negation of eq; across currencies
\* eq is false and ne is true whatever the amounts; within one currency eq
\* holds exactly when compare returns 0.
C8_EqNeTotal ==
    (result.op \in {"eq", "ne"})
    => /\ result.out.kind = "return"
       /\ result.out.val \in BOOLEAN
       /\ result.op = "ne" =>
              /\ eq(input.self, input.that).kind = "return"
              /\ result.out.val = ~eq(input.self, input.that).val
       /\ input.self.currency # input.that.currency =>
              result.out.val = (result.op = "ne")
       /\ (result.op = "eq" /\ input.self.currency = input.that.currency) =>
              result.out.val = (compare(input.self, input.that).val = 0)

\* ne called across currencies on equal amounts.
C8_Witness ==
    /\ result.op = "ne"
    /\ input.self.currency # input.that.currency
    /\ input.self.amount = input.that.amount
    /\ result.out.kind = "return"
    /\ result.out.val = TRUE

\* C9: round with a precision that is supplied and is not a non-negative
\* integer throws a TypeError; with a non-negative integer it returns a
\* Money of the same currency whose amount is the nearest multiple of
\* 10^-precision.
C9_RoundPrecisionChecked ==
    (result.op = "round" /\ input.precision # NumUndefined)
    => IF ValidDp(input.precision)
       THEN /\ result.out.kind = "return"
            /\ result.out.val.currency = input.self.currency
            /\ LET u == Pow10(Scale - Places(input.self, input.precision))
                   x == Units(result.out.val.amount)
               IN  /\ x % u = 0
                   /\ 2 * Abs(x - Units(input.self.amount)) <= u
       ELSE /\ result.out.kind = "throw"
            /\ result.out.err.name = "TypeError"

---------------------------------------------------------------------------
(* Conversion: to(currency) and its promise chain.                         *)
(*                                                                         *)
(* A call c goes from "idle" to "done" at once when to() answers without   *)
(* the rate collaborator (or when the collaborator throws while it is      *)
(* called); otherwise to "requested" (Money.forexService was called and    *)
(* returned a promise), then to "settled" (the collaborator settled that   *)
(* promise), then to "done" (the then-callback ran, or the rejection       *)
(* passed through, and the promise returned by to() settled).              *)

\* The targets a caller passes: the currencies, and two malformed values.
Targets == {USD, EUR, Str(<<"u","s","d">>), Undefined}

\* What the collaborator does when called: return a promise, or throw.
ForexBehaviours == {"promise", "throws"}

\* new Error(...) of the rate collaborator
ServiceErr == Err("Error", "Service", << >>, << >>)

\* How the collaborator settles its promise: a rate (0.9), no rate, a
\* value that is no number (NaN), or a rejection.
Responses ==
    {[kind |-> "resolve", rate |-> r, err |-> NoErr] :
        r \in {Num(9, 10), NumUndefined, Num(0, 0)}}
    \cup {[kind |-> "reject", rate |-> NumUndefined, err |-> ServiceErr]}

\* to() without the validation of the target.
toSyncUnvalidated(self, currency) ==
    IF self.currency = currency THEN "same" ELSE "request"

\* The synchronous part of to(): which way the call goes.
toSync(self, currency) ==
    IF self.currency = currency THEN "same"
    ELSE IF ~iso4217Test(currency) THEN "invalid"
    ELSE "request"

\* The then-callback without its test for an undefined rate: the
\* multiplication by undefined throws, and the catch rejects with that.
thenCallbackUnchecked(self, currency, rate) ==
    IF rate = NumUndefined \/ rate.d = 0 THEN Throw(BigInvalidNumber)
    ELSE Money(BigTimes(self.amount, NumToBig(rate)), currency)

\* The then-callback; a throw stands for the rejected promise it returns.
thenCallback(self, currency, rate) ==
    IF rate = NumUndefined THEN Throw(NoRate(self.currency, currency))
    ELSE IF rate.d = 0 THEN Throw(BigInvalidNumber)
    ELSE Money(BigTimes(self.amount, NumToBig(rate)), currency)

\* self kept in one variable shared by every call: the callback sees the
\* Money of the call that started last (here, the highest started call).
sharedSelf(cs, c) ==
    cs[CHOOSE d \in DOMAIN cs :
           /\ cs[d].pc # "idle"
           /\ \A e \in DOMAIN cs : cs[e].pc # "idle" => e <= d].self

\* let self = this: the Money the then-callback of call c closes over.
closureSelf(cs, c) == cs[c].self

Resolved(ref) == [kind |-> "resolved", ref |-> ref, err |-> NoErr]
Rejected(e) == [kind |-> "rejected", ref |-> 0, err |-> e]
Thrown(e) == [kind |-> "thrown", ref |-> 0, err |-> e]

\* An operation that writes its result into the first object of the heap.
StoreInPlace(h, news) ==
    IF h # << >> /\ news # << >> THEN [h EXCEPT ![1] = news[1]] ELSE h \o news

\* new Money(...): every Money an operation returns is a fresh, frozen
\* object; the objects that exist are left as they are.
Store(h, news) == h \o news

\* The outcome is handed to the caller: pc becomes "done".
Deliver(call, o) ==
    [call EXCEPT !.pc = "done", !.outcome = o, !.delivered = @ + 1]

To(c, i, target, behaviour) ==
    /\ calls[c].pc = "idle"
    /\ LET started == [calls[c] EXCEPT !.self = i, !.target = target]
           way == toSync(heap[i], target)
       IN  calls' = [calls EXCEPT ![c] =
               CASE way = "same" -> Deliver(started, Resolved(i))
                 [] way = "invalid" ->
                        Deliver(started, Rejected(InvalidCurrency(target)))
                 [] way = "request" /\ behaviour = "throws" ->
                        Deliver([started EXCEPT !.requests = @ + 1],
                                Thrown(ServiceErr))
                 [] way = "request" /\ behaviour = "promise" ->
                        [started EXCEPT !.requests = @ + 1, !.pc = "requested"]]
    /\ UNCHANGED <<input, result, heap>>

ForexSettle(c, response) ==
    /\ calls[c].pc = "requested"
    /\ calls' = [calls EXCEPT ![c].pc = "settled", ![c].response = response]
    /\ UNCHANGED <<input, result, heap>>

Then(c) ==
    /\ calls[c].pc = "settled"
    /\ LET call == calls[c]
           o == thenCallback(heap[closureSelf(calls, c)], call.target,
                             call.response.rate)
       IN  IF call.response.kind = "reject"
           THEN /\ calls' = [calls EXCEPT ![c] = Deliver(call, Rejected(call.response.err))]
                /\ heap' = heap
           ELSE IF o.kind = "throw"
           THEN /\ calls' = [calls EXCEPT ![c] = Deliver(call, Rejected(o.err))]
                /\ heap' = heap
           ELSE /\ calls' = [calls EXCEPT ![c] = Deliver(call, Resolved(Len(heap) + 1))]
                /\ heap' = Store(heap, <<o.val>>)
    /\ UNCHANGED <<input, result>>

\* The Money values conversions start from.
Seeds ==
    {[amount |-> Big(MaxCoeff, MaxDp), currency |-> USD],
     [amount |-> Big(MaxCoeff, 0), currency |-> JPY]}

Init ==
    /\ input = NoInput
    /\ result = NoResult
    /\ heap \in {<<x, y>> : x \in Seeds, y \in Seeds}
    /\ calls = [c \in CallIds |-> IdleCall]

Next ==
    \/ \E c \in CallIds, i \in 1..Len(heap), t \in Targets, b \in ForexBehaviours :
           To(c, i, t, b)
    \/ \E c \in CallIds, r \in Responses : ForexSettle(c, r)
    \/ \E c \in CallIds : Then(c)

Spec == Init /\ [][Next]_vars

---------------------------------------------------------------------------
(* Sequences of operations on the Money objects of a program. *)

\* The amounts a caller constructs a Money from: a decimal, and NaN.
CtorAmounts == {Num(MaxCoeff, Pow10(MaxDp)), Num(0, 0)}

\* The scalars a caller multiplies by: 2, and a string.
Scalars == {Num(2, 1), NumStr(1)}

\* The precisions a caller rounds to: the default, 0, -1 and 1.5.
HeapPrecisions == {NumUndefined, Num(0, 1), Num(-1, 1), Num(3, 2)}

\* The ratio arrays a caller allocates by: [], [0], [1] and [1, 2].
HeapRatios == {<< >>, <<0>>, <<1>>, <<1, 2>>}

\* A synchronous call: its outcome is recorded, and the Money objects it
\* returns (news) are new objects of the heap.
Call(name, out, news) ==
    /\ Len(heap) + Len(news) <= MaxHeap
    /\ result' = [op |-> name, out |-> out]
    /\ heap' = Store(heap, news)
    /\ UNCHANGED <<input, calls>>

\* The Money objects an outcome carries: one, or none when it threw.
One(out) == IF out.kind = "return" THEN <<out.val>> ELSE << >>
Many(out) == IF out.kind = "return" THEN out.val ELSE << >>

New(a, c) == LET o == MoneyNew(a, c) IN Call("new", o, One(o))
HeapPlus(i, j) == LET o == plus(heap[i], heap[j]) IN Call("plus", o, One(o))
HeapMinus(i, j) == LET o == minus(heap[i], heap[j]) IN Call("minus", o, One(o))
HeapTimes(i, n) == LET o == times(heap[i], n) IN Call("times", o, One(o))
HeapRound(i, p) == LET o == round(heap[i], p) IN Call("round", o, One(o))
HeapAllocate(i, r, p) ==
    LET o == allocate(heap[i], r, p) IN Call("allocate", o, Many(o))
HeapCompare(i, j) == Call("compare", compare(heap[i], heap[j]), << >>)
HeapEq(i, j) == Call("eq", eq(heap[i], heap[j]), << >>)
HeapNe(i, j) == Call("ne", ne(heap[i], heap[j]), << >>)
HeapLt(i, j) == Call("lt", lt(heap[i], heap[j]), << >>)
HeapLte(i, j) == Call("lte", lte(heap[i], heap[j]), << >>)
HeapGt(i, j) == Call("gt", gt(heap[i], heap[j]), << >>)
HeapGte(i, j) == Call("gte", gte(heap[i], heap[j]), << >>)

InitHeap ==
    /\ input = NoInput
    /\ result = NoResult
    /\ heap = << >>
    /\ calls = [c \in CallIds |-> IdleCall]

\* The synchronous calls, and one conversion (call 1) among them; the
\* interleavings of several conversions are those of Spec.
NextHeap ==
    \/ \E a \in CtorAmounts, c \in Targets : New(a, c)
    \/ \E i, j \in 1..Len(heap) : HeapPlus(i, j)
    \/ \E i, j \in 1..Len(heap) : HeapMinus(i, j)
    \/ \E i \in 1..Len(heap), n \in Scalars : HeapTimes(i, n)
    \/ \E i \in 1..Len(heap), p \in HeapPrecisions : HeapRound(i, p)
    \/ \E i \in 1..Len(heap), r \in HeapRatios : HeapAllocate(i, r, NumUndefined)
    \/ \E i, j \in 1..Len(heap) : HeapCompare(i, j)
    \/ \E i, j \in 1..Len(heap) : HeapEq(i, j)
    \/ \E i, j \in 1..Len(heap) : HeapNe(i, j)
    \/ \E i, j \in 1..Len(heap) : HeapLt(i, j)
    \/ \E i, j \in 1..Len(heap) : HeapLte(i, j)
    \/ \E i, j \in 1..Len(heap) : HeapGt(i, j)
    \/ \E i, j \in 1..Len(heap) : HeapGte(i, j)
    \/ \E i \in 1..Len(heap), t \in Targets, b \in ForexBehaviours : To(1, i, t, b)
    \/ \E r \in Responses : ForexSettle(1, r)
    \/ Then(1)

SpecHeap == InitHeap /\ [][NextHeap]_vars

---------------------------------------------------------------------------
(* Properties of the conversion. *)

Started == {c \in CallIds : calls[c].pc # "idle"}
Done == {c \in CallIds : calls[c].pc = "done"}

\* C3: to() never throws: every failure is a rejected promise.
C3_NeverThrowsSynchronously ==
    \A c \in CallIds : calls[c].outcome.kind # "thrown"

\* C4: the rate collaborator is called only for a target that differs from
\* the currency of the receiver and matches the ISO-4217 pattern; for the
\* receiver's own currency the call resolves to the receiver itself, and
\* for a different, malformed target it is rejected with the invalid
\* currency error naming the target, in both cases with no rate request.
C4_RateRequestOnlyForValidOtherCurrency ==
    \A c \in Started :
        LET call == calls[c]
            self == heap[call.self]
        IN  /\ call.requests > 0 =>
                  (call.target # self.currency /\ iso4217Test(call.target))
            /\ call.target = self.currency =>
                  /\ call.requests = 0
                  /\ call.pc = "done"
                  /\ call.outcome = Resolved(call.self)
            /\ (call.target # self.currency /\ ~iso4217Test(call.target)) =>
                  /\ call.requests = 0
                  /\ call.pc = "done"
                  /\ call.outcome.kind = "rejected"
                  /\ call.outcome.err.kind = "InvalidCurrency"
                  /\ call.outcome.err.a = JSToString(call.target)

\* A call with a malformed target and a call with the receiver's currency.
C4_Witness ==
    /\ calls[1].pc = "done"
    /\ ~iso4217Test(calls[1].target)
    /\ calls[1].outcome.kind = "rejected"
    /\ calls[2].pc = "done"
    /\ calls[2].target = heap[calls[2].self].currency
    /\ calls[2].outcome.kind = "resolved"

\* What one call alone delivers for a Money, a target and a response of
\* the collaborator.
Alone(self, target, response) ==
    IF response.kind = "reject" THEN [kind |-> "rejected", err |-> response.err]
    ELSE LET o == thenCallback(self, target, response.rate)
         IN  IF o.kind = "throw" THEN [kind |-> "rejected", err |-> o.err]
             ELSE [kind |-> "resolved", err |-> NoErr]

C5_State ==
    /\ \A c \in CallIds :
          LET call == calls[c]
          IN  /\ call.pc = "idle" => (call.requests = 0 /\ call.delivered = 0)
              /\ call.pc \in {"requested", "settled"} =>
                    (call.requests = 1 /\ call.delivered = 0
                        /\ call.outcome = NoOutcome)
              /\ call.pc = "done" =>
                    (call.requests <= 1 /\ call.delivered = 1
                        /\ call.outcome.kind \in {"resolved", "rejected", "thrown"})
              /\ (call.pc = "done" /\ call.response.kind # "none") =>
                    /\ call.requests = 1
                    /\ call.outcome.kind = Alone(heap[call.self], call.target, call.response).kind
                    /\ call.outcome.err = Alone(heap[call.self], call.target, call.response).err
                    /\ call.outcome.kind = "resolved" =>
                          heap[call.outcome.ref] =
                              thenCallback(heap[call.self], call.target, call.response.rate).val
    /\ \A c, d \in Done :
          (/\ calls[c].response.kind # "none"
           /\ heap[calls[c].self] = heap[calls[d].self]
           /\ calls[c].target = calls[d].target
           /\ calls[c].response = calls[d].response)
          => /\ calls[c].outcome.kind = calls[d].outcome.kind
             /\ calls[c].outcome.err = calls[d].outcome.err
             /\ calls[c].outcome.kind = "resolved" =>
                    heap[calls[c].outcome.ref] = heap[calls[d].outcome.ref]

C5_Step ==
    /\ Cardinality({c \in CallIds : calls'[c] # calls[c]}) <= 1
    /\ \A c \in CallIds :
          /\ calls[c].pc = "done" => calls'[c] = calls[c]
          /\ calls'[c].requests >= calls[c].requests
          /\ calls'[c].delivered >= calls[c].delivered

\* C5: however the calls interleave, a call that reaches the collaborator
\* makes one rate request; once the request has settled the call delivers
\* one outcome, which then never changes, and which is the outcome a call
\* with the same Money, target and response delivers alone; a step of one
\* call leaves every other call as it is.
C5_OneRequestOneOutcome == [](C5_State) /\ [][C5_Step]_vars

\* Two calls on the same Money, both settled by the collaborator, with
\* different outcomes.
C5_Witness ==
    /\ calls[1].pc = "done" /\ calls[2].pc = "done"
    /\ calls[1].self = calls[2].self
    /\ calls[1].response.kind = "resolve"
    /\ calls[2].response.kind = "resolve"
    /\ calls[1].outcome.kind = "resolved"
    /\ calls[2].outcome.kind = "rejected"

\* A decimal as an integer count of 10^-(MaxDp + MaxCalls) units: each
\* conversion, by a rate of one decimal place, adds at most one place.
FineUnits(b) == b.c * Pow10(MaxDp + MaxCalls - b.dp)

C6_State ==
    \A c \in Done :
        LET call == calls[c]
            self == heap[call.self]
        IN  call.response.kind = "resolve" =>
              /\ call.response.rate = NumUndefined =>
                    /\ call.outcome.kind = "rejected"
                    /\ call.outcome.ref = 0
                    /\ call.outcome.err.kind = "NoRate"
                    /\ call.outcome.err.a = JSToString(self.currency)
                    /\ call.outcome.err.b = JSToString(call.target)
              /\ (call.response.rate.t = "number" /\ call.response.rate.d # 0) =>
                    /\ call.outcome.kind = "resolved"
                    /\ call.outcome.ref \in 1..Len(heap)
                    /\ call.outcome.ref # call.self
                    /\ heap[call.outcome.ref].currency = call.target
                    /\ FineUnits(heap[call.outcome.ref].amount) * call.response.rate.d
                          = FineUnits(self.amount) * call.response.rate.n

C6_Step ==
    \A c \in CallIds :
        (/\ calls[c].pc = "settled"
         /\ calls'[c].pc = "done"
         /\ calls[c].response.kind = "resolve"
         /\ calls[c].response.rate = NumUndefined)
        => heap' = heap

\* C6: for a valid target other than the receiver's currency, a resolved
\* rate of undefined rejects the call with the no-rate error naming the
\* source and the target currency, and constructs no Money; a resolved
\* rate r resolves the call to a new Money of the target currency whose
\* amount is the product of the receiver's amount and r.
C6_UndefinedRateRejectsElseConverts == [](C6_State) /\ [][C6_Step]_vars

\* One call rejected for want of a rate, one converted.
C6_Witness ==
    /\ calls[1].pc = "done"
    /\ calls[1].response.kind = "resolve"
    /\ calls[1].response.rate = NumUndefined
    /\ calls[1].outcome.kind = "rejected"
    /\ calls[2].pc = "done"
    /\ calls[2].response.kind = "resolve"
    /\ calls[2].response.rate = Num(9, 10)
    /\ calls[2].outcome.kind = "resolved"

---------------------------------------------------------------------------
(* Properties of sequences of operations. *)

\* C10: an operation, whether it returns or throws, leaves the amount and
\* the currency of every Money that exists as they are, and the currency
\* of every Money matches ^[A-Z]{3}$.
C10_MoneyNeverChanges ==
    [][/\ Len(heap') >= Len(heap)
       /\ \A i \in 1..Len(heap) : heap'[i] = heap[i]
       /\ \A i \in 1..Len(heap') : iso4217Test(heap'[i].currency)]_vars

\* A conversion has produced a Money, and the last synchronous call, on
\* two Money objects of different currencies, threw.
C10_Witness ==
    /\ calls[1].pc = "done"
    /\ calls[1].outcome.kind = "resolved"
    /\ calls[1].outcome.ref # calls[1].self
    /\ result.op \in {"plus", "minus", "compare", "lt"}
    /\ result.out.kind = "throw"

=============================================================================
